---- MODULE Spec2Model ----
(***************************************************************************)
(* RTSession (backend/src/session.ts): one relay session between a client  *)
(* WebSocket (ws) and an upstream realtime client (RTClient).              *)
(*                                                                         *)
(* The model covers one session from the end of its constructor: the ws    *)
(* handlers are registered (line 72) and initialize() has called           *)
(* client.configure() and is suspended on it (lines 75, 83).               *)
(*                                                                         *)
(* The upstream (rt-client) and the client are the environment: every      *)
(* upstream promise may resolve or reject, every lazy sequence may yield   *)
(* an element, end or fail, and the client may send a frame or close at    *)
(* any moment its socket is open.                                          *)
(*                                                                         *)
(* A promise of the session that rejects with nobody awaiting it is        *)
(* counted in `unhandled`; what the runtime does with it lies outside      *)
(* RTSession and is not modelled.                                          *)
(***************************************************************************)
EXTENDS Integers, Sequences, FiniteSets, TLC

VARIABLES
    cfg,        \* promise of client.configure(): "pending" | "ok" | "failed"
    loop,       \* position of startEventLoop (and of the handler it awaits)
    curItem,    \* item.id of the message item being iterated by handleResponse
    curIdx,     \* contentIndex the upstream gives to the next content entry of curItem
    curInput,   \* event.id of the input_audio event being awaited
    entries,    \* one record per content entry handed to a content handler
    inputs,     \* history: one record per input_audio event given to handleInputAudio
    wsOpen,     \* the client WebSocket is OPEN (no "close" event yet)
    wsLog,      \* every frame passed to ws.send, in call order
    wsMeta,     \* history, parallel to wsLog: who sent it and whether ws was open
    frames,     \* every client frame received, with the position of its handler
    upCalls,    \* every call made on the RTClient after configure(), in call order
    closePc,    \* position of handleClose: "none" | "closing" | "closed" | "closeFailed"
    closedIn,   \* history: value of loop when the ws "close" event fired
    unhandled,  \* number of session promises rejected with no handler
    nYields     \* number of elements (events, items, content entries, chunks)
                \* the upstream has yielded

vars == <<cfg, loop, curItem, curIdx, curInput, entries, inputs, wsOpen, wsLog, wsMeta,
          frames, upCalls, closePc, closedIn, unhandled, nYields>>

loopVars == <<loop, curItem, curIdx, curInput, entries, inputs>>
clientVars == <<frames, upCalls>>
closeVars == <<wsOpen, closePc, closedIn>>

----------------------------------------------------------------------------
(* Bounds of the explored behaviours *)

MaxFrames == 2     \* client frames received
MaxInputs == 5     \* upstream yields, plus two for every client frame received

(* Values the environment draws from *)

(* The upstream gives every item an id of its own: the n-th element it    *)
(* yields, when an item, has id "A<n>".                                    *)
ItemId(n) == "A" \o ToString(n)
TextChunkValues == {"hi", " there"}
UserTexts == {"hello"}
ByteSeqs == {<<1, 2>>, <<3>>}    \* bytes of an upstream audio chunk
FrameBytes == {<<7, 8>>}         \* bytes of a client binary frame

Absent == "<absent>"    \* a property the JSON object does not have
NoBytes == <<>>

----------------------------------------------------------------------------
(* Wire messages (session.ts 12-49).  A text frame is the JSON object that *)
(* JSON.stringify serialises; a property the object lacks is Absent.       *)

WireText(type, action, id, delta, text, greeting) ==
    [binary |-> FALSE, type |-> type, action |-> action, id |-> id,
     delta |-> delta, text |-> text, greeting |-> greeting, bytes |-> NoBytes]

WireBinary(bytes) ==
    [binary |-> TRUE, type |-> Absent, action |-> Absent, id |-> Absent,
     delta |-> Absent, text |-> Absent, greeting |-> Absent, bytes |-> bytes]

TextDeltaAsText(id, delta) == WireText("text_delta", Absent, id, Absent, delta, Absent)

TextDelta(id, delta) == WireText("text_delta", Absent, id, delta, Absent, Absent)

Transcription(id, text) == WireText("transcription", Absent, id, Absent, text, Absent)

SpeechStarted == WireText("control", "speech_started", Absent, Absent, Absent, Absent)

Connected(greeting) == WireText("control", "connected", Absent, Absent, Absent, greeting)

TextDone(id) == WireText("control", "text_done", id, Absent, Absent, Absent)

Greeting == "You are now connected to the a expressjs server"

ContentIdItemOnly(itemId, contentIndex) == itemId

(* `${content.itemId}-${content.contentIndex}` *)
ContentId(itemId, contentIndex) == itemId \o "-" \o ToString(contentIndex)

(* A typed array as the upstream yields it: a view on an ArrayBuffer. *)
TypedArray(buffer, byteOffset, byteLength) ==
    [buffer |-> buffer, byteOffset |-> byteOffset, byteLength |-> byteLength]

(* The bytes a typed array denotes. *)
TypedArrayBytes(chunk) ==
    SubSeq(chunk.buffer, chunk.byteOffset + 1, chunk.byteOffset + chunk.byteLength)

(* rt-client decodes each audio delta into an array of its own, so a chunk *)
(* spans its whole ArrayBuffer.                                            *)
AudioChunkValues == {TypedArray(b, 0, Len(b)) : b \in ByteSeqs}

(* ws.send(JSON.stringify(message)): hands the frame to the socket; on a   *)
(* socket that is no longer OPEN ws (>= 8) drops it without throwing.      *)
send(message) == Append(wsLog, message)

sendBinaryFromOffset(message) == Append(wsLog, WireBinary(Tail(message)))

(* ws.send(Buffer.from(message), {binary: true}): Buffer.from on an        *)
(* ArrayBuffer is a view of the whole buffer.                              *)
sendBinary(message) == Append(wsLog, WireBinary(message))

Meta(entry, branch) == [open |-> wsOpen, entry |-> entry, branch |-> branch]

----------------------------------------------------------------------------
Init ==
    /\ cfg = "pending"
    /\ loop = "idle"
    /\ curItem = ""
    /\ curIdx = 0
    /\ curInput = ""
    /\ entries = <<>>
    /\ inputs = <<>>
    /\ wsOpen = TRUE
    /\ wsLog = <<>>
    /\ wsMeta = <<>>
    /\ frames = <<>>
    /\ upCalls = <<>>
    /\ closePc = "none"
    /\ closedIn = "none"
    /\ unhandled = 0
    /\ nYields = 0

----------------------------------------------------------------------------
(* initialize(), lines 81-104 *)

initializeNoGreeting ==
    /\ cfg = "pending"
    /\ cfg' = "ok"
    /\ loop' = "events"
    /\ UNCHANGED <<curItem, curIdx, curInput, entries, inputs, wsLog, wsMeta,
                   clientVars, closeVars, unhandled, nYields>>

(* configure() resolves: send the greeting, then call startEventLoop(),    *)
(* which runs to its first await on client.events().                       *)
initialize ==
    /\ cfg = "pending"
    /\ cfg' = "ok"
    /\ wsLog' = send(Connected(Greeting))
    /\ wsMeta' = Append(wsMeta, Meta(0, "initialize"))
    /\ loop' = "events"
    /\ UNCHANGED <<curItem, curIdx, curInput, entries, inputs, clientVars,
                   closeVars, unhandled, nYields>>

(* configure() rejects: initialize() rejects; the constructor (line 75)    *)
(* dropped its promise.                                                    *)
initializeRejects ==
    /\ cfg = "pending"
    /\ cfg' = "failed"
    /\ unhandled' = unhandled + 1
    /\ UNCHANGED <<loopVars, wsLog, wsMeta, clientVars, closeVars, nYields>>

----------------------------------------------------------------------------
(* Client frames.  A text frame is described by what JSON.parse makes of   *)
(* it: "invalid" (SyntaxError), "null" (the JSON literal null) or "object" *)
(* with its type and text properties.                                      *)

BinaryFrame(bytes) ==
    [binary |-> TRUE, json |-> Absent, type |-> Absent, text |-> Absent, bytes |-> bytes]

TextFrame(json, type, text) ==
    [binary |-> FALSE, json |-> json, type |-> type, text |-> text, bytes |-> NoBytes]

ClientFrames ==
    {BinaryFrame(b) : b \in FrameBytes}
    \cup {TextFrame("invalid", Absent, Absent), TextFrame("null", Absent, Absent)}
    \cup {TextFrame("object", "user_message", t) : t \in UserTexts}
    \cup {TextFrame("object", "text_delta", Absent), TextFrame("object", Absent, Absent)}

(* A call on the RTClient: the operation, its argument, and as history the *)
(* client frame whose handler made it (0: none) and the state of           *)
(* configure() at the call.                                                *)
UpCall(op, text, bytes, frame) ==
    [op |-> op, text |-> text, bytes |-> bytes, frame |-> frame, cfg |-> cfg]

(* JSON.parse(messageString) followed by the read of parsed.type, lines    *)
(* 190-195: "throws" for text that is not JSON and for null, else the type. *)
parsedType(f) ==
    IF f.json = "invalid" \/ f.json = "null" THEN "throws" ELSE f.type

(* handleBinaryMessage up to its await: client.sendAudio(new Uint8Array(message)) *)
handleBinaryMessage(f, n) ==
    /\ upCalls' = Append(upCalls, UpCall("sendAudio", Absent, f.bytes, n))
    /\ frames' = Append(frames, [frame |-> f, pc |-> "sendAudio"])

handleTextMessageStopsAfterError(f, n) ==
    IF parsedType(f) = "throws"
    THEN /\ frames' = Append(frames, [frame |-> f, pc |-> "caught"])
         /\ UNCHANGED upCalls
    ELSE IF parsedType(f) = "user_message" /\ \A k \in DOMAIN frames : frames[k].pc # "caught"
    THEN /\ upCalls' = Append(upCalls, UpCall("sendItem", f.text, NoBytes, n))
         /\ frames' = Append(frames, [frame |-> f, pc |-> "sendItem"])
    ELSE /\ frames' = Append(frames, [frame |-> f, pc |-> "done"])
         /\ UNCHANGED upCalls

handleTextMessageNoAwait(f, n) ==
    IF parsedType(f) = "throws"
    THEN /\ frames' = Append(frames, [frame |-> f, pc |-> "caught"])
         /\ UNCHANGED upCalls
    ELSE IF parsedType(f) = "user_message"
    THEN /\ upCalls' = Append(Append(upCalls, UpCall("sendItem", f.text, NoBytes, n)),
                               UpCall("generateResponse", Absent, NoBytes, n))
         /\ frames' = Append(frames, [frame |-> f, pc |-> "sendItem"])
    ELSE /\ frames' = Append(frames, [frame |-> f, pc |-> "done"])
         /\ UNCHANGED upCalls

(* handleTextMessage up to its first await (or its end) *)
handleTextMessage(f, n) ==
    IF parsedType(f) = "throws"
    THEN /\ frames' = Append(frames, [frame |-> f, pc |-> "caught"])
         /\ UNCHANGED upCalls
    ELSE IF parsedType(f) = "user_message"
    THEN /\ upCalls' = Append(upCalls, UpCall("sendItem", f.text, NoBytes, n))
         /\ frames' = Append(frames, [frame |-> f, pc |-> "sendItem"])
    ELSE /\ frames' = Append(frames, [frame |-> f, pc |-> "done"])
         /\ UNCHANGED upCalls

handleMessageBetweenContents ==
    /\ wsOpen
    /\ loop \notin {"text", "audio", "inputAudio"}
    /\ Len(frames) < MaxFrames
    /\ nYields + 2 * (Len(frames) + 1) <= MaxInputs
    /\ \E f \in ClientFrames :
         IF f.binary
         THEN handleBinaryMessage(f, Len(frames) + 1)
         ELSE handleTextMessage(f, Len(frames) + 1)
    /\ UNCHANGED <<cfg, loopVars, wsLog, wsMeta, closeVars, unhandled, nYields>>

(* ws "message" event: handleMessage, lines 160-170.  The handler is       *)
(* registered by the constructor and has no condition on the session.      *)
handleMessage ==
    /\ wsOpen
    /\ Len(frames) < MaxFrames
    /\ nYields + 2 * (Len(frames) + 1) <= MaxInputs
    /\ \E f \in ClientFrames :
         IF f.binary
         THEN handleBinaryMessage(f, Len(frames) + 1)
         ELSE handleTextMessage(f, Len(frames) + 1)
    /\ UNCHANGED <<cfg, loopVars, wsLog, wsMeta, closeVars, unhandled, nYields>>

(* sendAudio settles, lines 178-182; a rejection is rethrown and caught by *)
(* handleMessage (line 167).                                               *)
handleBinaryMessageSettles ==
    \E n \in DOMAIN frames :
      /\ frames[n].pc = "sendAudio"
      /\ \E ok \in BOOLEAN :
           frames' = [frames EXCEPT ![n].pc = IF ok THEN "done" ELSE "caught"]
      /\ UNCHANGED <<cfg, loopVars, wsLog, wsMeta, upCalls, closeVars, unhandled,
                     nYields>>

(* sendItem settles, lines 197-207: on success generateResponse() is called *)
handleTextMessageSendItemSettles ==
    \E n \in DOMAIN frames :
      /\ frames[n].pc = "sendItem"
      /\ \/ /\ frames' = [frames EXCEPT ![n].pc = "generateResponse"]
            /\ upCalls' = Append(upCalls, UpCall("generateResponse", Absent, NoBytes, n))
         \/ /\ frames' = [frames EXCEPT ![n].pc = "caught"]
            /\ UNCHANGED upCalls
      /\ UNCHANGED <<cfg, loopVars, wsLog, wsMeta, closeVars, unhandled, nYields>>

(* generateResponse settles, lines 202-207 *)
handleTextMessageGenerateSettles ==
    \E n \in DOMAIN frames :
      /\ frames[n].pc = "generateResponse"
      /\ \E ok \in BOOLEAN :
           frames' = [frames EXCEPT ![n].pc = IF ok THEN "done" ELSE "caught"]
      /\ UNCHANGED <<cfg, loopVars, wsLog, wsMeta, upCalls, closeVars, unhandled,
                     nYields>>

(* ws "close" event: handleClose up to its await on client.close(),        *)
(* lines 214-217.  The event fires once per socket.                        *)
handleClose ==
    /\ wsOpen
    /\ wsOpen' = FALSE
    /\ closedIn' = loop
    /\ closePc' = "closing"
    /\ upCalls' = Append(upCalls, UpCall("close", Absent, NoBytes, 0))
    /\ UNCHANGED <<cfg, loopVars, wsLog, wsMeta, frames, unhandled, nYields>>

handleCloseSettlesRethrows ==
    /\ closePc = "closing"
    /\ \E ok \in BOOLEAN :
         /\ closePc' = IF ok THEN "closed" ELSE "closeFailed"
         /\ unhandled' = IF ok THEN unhandled ELSE unhandled + 1
    /\ UNCHANGED <<cfg, loopVars, wsLog, wsMeta, clientVars, wsOpen, closedIn,
                   nYields>>

(* client.close() settles, lines 218-221: a rejection is logged *)
handleCloseSettles ==
    /\ closePc = "closing"
    /\ \E ok \in BOOLEAN : closePc' = IF ok THEN "closed" ELSE "closeFailed"
    /\ UNCHANGED <<cfg, loopVars, wsLog, wsMeta, clientVars, wsOpen, closedIn,
                   unhandled, nYields>>

----------------------------------------------------------------------------
(* The upstream event loop: startEventLoop (326-340) and the handlers it   *)
(* awaits.  loop is the await the loop is suspended on:                    *)
(*   "idle"       startEventLoop not called                                *)
(*   "events"     for await (const event of this.client.events())          *)
(*   "items"      handleResponse: for await (const item of event)          *)
(*   "contents"   handleResponse: for await (const content of item)        *)
(*   "text"       handleTextContent: for await (... content.textChunks())  *)
(*   "audio"      handleAudioContent: await Promise.all([...])             *)
(*   "inputAudio" handleInputAudio: await event.waitForCompletion()        *)
(*   "done"       events() ended, startEventLoop resolved                  *)
(*   "failed"     startEventLoop rejected                                  *)

EventKinds == {"response", "input_audio", "other"}
ItemKinds == {"message", "function_call"}
ContentKinds == {"text", "audio", "other"}
TranscriptionValues == {Absent, "hello"}    \* event.transcription; Absent is undefined

Entry(kind, itemId, contentIndex, tst, ast) ==
    [kind |-> kind, itemId |-> itemId, contentIndex |-> contentIndex,
     text |-> <<>>,     \* chunks yielded by textChunks() / transcriptChunks()
     audio |-> <<>>,    \* chunks yielded by audioChunks()
     tst |-> tst,       \* text / transcript loop: "run" | "ended" | "failed"
     ast |-> ast]       \* audio loop: "none" | "run" | "ended" | "failed"

Cur == Len(entries)

(* An input_audio event given to handleInputAudio: its id, where the wait  *)
(* for completion stands ("waiting" | "completed" | "failed") and the      *)
(* event.transcription found after completion.                             *)
InputAudio(id) == [id |-> id, st |-> "waiting", transcription |-> Absent]

transcriptionTextRaw(t) == t

(* event.transcription || "" (line 310) *)
transcriptionText(t) == IF t = Absent THEN "" ELSE t

(* The upstream may yield one more element (bound of the exploration). *)
MayYield == nYields + 2 * Len(frames) < MaxInputs

EventLoopLogsAndContinues ==
    /\ loop' = "events"
    /\ unhandled' = unhandled

(* An error leaves startEventLoop: every handler rethrows (243, 270, 294,  *)
(* 319, 338) and initialize() called startEventLoop() without awaiting it. *)
EventLoopRejects ==
    /\ loop' = "failed"
    /\ unhandled' = unhandled + 1

startEventLoopNoAwait ==
    /\ loop = "events"
    /\ \/ /\ MayYield
          /\ nYields' = nYields + 1
          /\ \E k \in EventKinds :
               \/ /\ k = "response"
                  /\ loop' = "items"
                  /\ UNCHANGED <<curInput, inputs, wsLog, wsMeta>>
               \/ /\ k = "input_audio"
                  /\ curInput' = ItemId(nYields + 1)
                  /\ inputs' = Append(inputs, InputAudio(ItemId(nYields + 1)))
                  /\ wsLog' = send(SpeechStarted)
                  /\ wsMeta' = Append(wsMeta, Meta(0, "handleInputAudio"))
                  /\ UNCHANGED loop
               \/ /\ k = "other"
                  /\ UNCHANGED <<loop, curInput, inputs, wsLog, wsMeta>>
          /\ UNCHANGED unhandled
       \/ /\ loop' = "done"
          /\ UNCHANGED <<curInput, inputs, wsLog, wsMeta, unhandled, nYields>>
       \/ /\ EventLoopRejects
          /\ UNCHANGED <<curInput, inputs, wsLog, wsMeta, nYields>>
    /\ UNCHANGED <<cfg, curItem, curIdx, entries, clientVars, closeVars>>

(* one turn of `for await (const event of this.client.events())`, 329-335 *)
startEventLoop ==
    /\ loop = "events"
    /\ \/ /\ MayYield
          /\ nYields' = nYields + 1
          /\ \E k \in EventKinds :
               \/ /\ k = "response"
                  /\ loop' = "items"
                  /\ UNCHANGED <<curInput, inputs, wsLog, wsMeta>>
               \/ /\ k = "input_audio"
                  /\ curInput' = ItemId(nYields + 1)
                  /\ inputs' = Append(inputs, InputAudio(ItemId(nYields + 1)))
                  /\ wsLog' = send(SpeechStarted)
                  /\ wsMeta' = Append(wsMeta, Meta(0, "handleInputAudio"))
                  /\ loop' = "inputAudio"
               \/ /\ k = "other"
                  /\ UNCHANGED <<loop, curInput, inputs, wsLog, wsMeta>>
          /\ UNCHANGED unhandled
       \/ /\ loop' = "done"
          /\ UNCHANGED <<curInput, inputs, wsLog, wsMeta, unhandled, nYields>>
       \/ /\ EventLoopRejects
          /\ UNCHANGED <<curInput, inputs, wsLog, wsMeta, nYields>>
    /\ UNCHANGED <<cfg, curItem, curIdx, entries, clientVars, closeVars>>

(* handleInputAudio after waitForCompletion() settles, 305-320 *)
handleInputAudio ==
    /\ loop = "inputAudio"
    /\ \/ /\ \E t \in TranscriptionValues :
               /\ wsLog' = send(Transcription(curInput, transcriptionText(t)))
               /\ inputs' = [inputs EXCEPT ![Len(inputs)] =
                                 [@ EXCEPT !.st = "completed", !.transcription = t]]
          /\ wsMeta' = Append(wsMeta, Meta(0, "handleInputAudio"))
          /\ loop' = "events"
          /\ UNCHANGED unhandled
       \/ /\ EventLoopRejects
          /\ inputs' = [inputs EXCEPT ![Len(inputs)].st = "failed"]
          /\ UNCHANGED <<wsLog, wsMeta>>
    /\ UNCHANGED <<cfg, curItem, curIdx, curInput, entries, clientVars, closeVars,
                   nYields>>

(* one turn of `for await (const item of event)`, 280-290 *)
handleResponseItem ==
    /\ loop = "items"
    /\ \/ /\ MayYield
          /\ nYields' = nYields + 1
          /\ \E k \in ItemKinds :
               IF k = "message"
               THEN /\ curItem' = ItemId(nYields + 1)
                    /\ curIdx' = 0
                    /\ loop' = "contents"
               ELSE UNCHANGED <<loop, curItem, curIdx>>
          /\ UNCHANGED unhandled
       \/ /\ loop' = "events"
          /\ UNCHANGED <<curItem, curIdx, unhandled, nYields>>
       \/ /\ EventLoopRejects
          /\ UNCHANGED <<curItem, curIdx, nYields>>
    /\ UNCHANGED <<cfg, curInput, entries, inputs, wsLog, wsMeta, clientVars, closeVars>>

handleResponseContentNoAwait ==
    /\ loop = "contents"
    /\ \/ /\ MayYield
          /\ nYields' = nYields + 1
          /\ curIdx' = curIdx + 1
          /\ \E k \in ContentKinds :
               \/ /\ k = "text"
                  /\ entries' = Append(entries, Entry("text", curItem, curIdx, "run", "none"))
                  /\ UNCHANGED loop
               \/ /\ k = "audio"
                  /\ entries' = Append(entries, Entry("audio", curItem, curIdx, "run", "run"))
                  /\ loop' = "audio"
               \/ /\ k = "other"
                  /\ UNCHANGED <<loop, entries>>
          /\ UNCHANGED unhandled
       \/ /\ loop' = "items"
          /\ UNCHANGED <<curIdx, entries, unhandled, nYields>>
       \/ /\ EventLoopRejects
          /\ UNCHANGED <<curIdx, entries, nYields>>
    /\ UNCHANGED <<cfg, curItem, curInput, inputs, wsLog, wsMeta, clientVars, closeVars>>

(* one turn of `for await (const content of item)`, 282-288: a text or     *)
(* audio entry starts its handler, which runs to its first await.          *)
handleResponseContent ==
    /\ loop = "contents"
    /\ \/ /\ MayYield
          /\ nYields' = nYields + 1
          /\ curIdx' = curIdx + 1
          /\ \E k \in ContentKinds :
               \/ /\ k = "text"
                  /\ entries' = Append(entries, Entry("text", curItem, curIdx, "run", "none"))
                  /\ loop' = "text"
               \/ /\ k = "audio"
                  /\ entries' = Append(entries, Entry("audio", curItem, curIdx, "run", "run"))
                  /\ loop' = "audio"
               \/ /\ k = "other"
                  /\ UNCHANGED <<loop, entries>>
          /\ UNCHANGED unhandled
       \/ /\ loop' = "items"
          /\ UNCHANGED <<curIdx, entries, unhandled, nYields>>
       \/ /\ EventLoopRejects
          /\ UNCHANGED <<curIdx, entries, nYields>>
    /\ UNCHANGED <<cfg, curItem, curInput, inputs, wsLog, wsMeta, clientVars, closeVars>>

(* one turn of handleTextContent's loop, 228-245 *)
handleTextContent ==
    /\ loop = "text"
    /\ LET e == entries[Cur]
           contentId == ContentId(e.itemId, e.contentIndex)
       IN \/ /\ MayYield
             /\ nYields' = nYields + 1
             /\ \E text \in TextChunkValues :
                  /\ wsLog' = send(TextDelta(contentId, text))
                  /\ entries' = [entries EXCEPT ![Cur].text = Append(@, text)]
             /\ wsMeta' = Append(wsMeta, Meta(Cur, "handleTextContent"))
             /\ UNCHANGED <<loop, unhandled>>
          \/ /\ wsLog' = send(TextDone(contentId))
             /\ wsMeta' = Append(wsMeta, Meta(Cur, "handleTextContent"))
             /\ entries' = [entries EXCEPT ![Cur].tst = "ended"]
             /\ loop' = "contents"
             /\ UNCHANGED <<unhandled, nYields>>
          \/ /\ entries' = [entries EXCEPT ![Cur].tst = "failed"]
             /\ EventLoopRejects
             /\ UNCHANGED <<wsLog, wsMeta, nYields>>
    /\ UNCHANGED <<cfg, curItem, curIdx, curInput, inputs, clientVars, closeVars>>

PromiseRace(tst, ast) ==
    IF loop # "audio" THEN UNCHANGED <<loop, unhandled>>
    ELSE IF tst = "failed" \/ ast = "failed" THEN EventLoopRejects
    ELSE IF tst = "ended" \/ ast = "ended" THEN loop' = "contents" /\ UNCHANGED unhandled
    ELSE UNCHANGED <<loop, unhandled>>

(* Promise.all of handleAudioContent (266-271) once a branch has settled   *)
(* with states tst and ast: it resolves when both have ended and rejects   *)
(* at the first failure; a later failure of the other branch is absorbed.  *)
PromiseAll(tst, ast) ==
    IF loop # "audio" THEN UNCHANGED <<loop, unhandled>>
    ELSE IF tst = "failed" \/ ast = "failed" THEN EventLoopRejects
    ELSE IF tst = "ended" /\ ast = "ended" THEN loop' = "contents" /\ UNCHANGED unhandled
    ELSE UNCHANGED <<loop, unhandled>>

(* one turn of handleAudioChunks, 252-256.  The branch is its own async    *)
(* function: it keeps running when Promise.all has already rejected.       *)
handleAudioChunks ==
    /\ Cur > 0
    /\ entries[Cur].ast = "run"
    /\ LET e == entries[Cur]
       IN \/ /\ MayYield
             /\ nYields' = nYields + 1
             /\ \E chunk \in AudioChunkValues :
                  /\ wsLog' = sendBinary(chunk.buffer)
                  /\ entries' = [entries EXCEPT ![Cur].audio = Append(@, chunk)]
             /\ wsMeta' = Append(wsMeta, Meta(Cur, "handleAudioChunks"))
             /\ UNCHANGED <<loop, unhandled>>
          \/ /\ entries' = [entries EXCEPT ![Cur].ast = "ended"]
             /\ PromiseAll(e.tst, "ended")
             /\ UNCHANGED <<wsLog, wsMeta, nYields>>
          \/ /\ entries' = [entries EXCEPT ![Cur].ast = "failed"]
             /\ PromiseAll(e.tst, "failed")
             /\ UNCHANGED <<wsLog, wsMeta, nYields>>
    /\ UNCHANGED <<cfg, curItem, curIdx, curInput, inputs, clientVars, closeVars>>

(* one turn of handleAudioTranscript, 257-263 *)
handleAudioTranscript ==
    /\ Cur > 0
    /\ entries[Cur].kind = "audio"
    /\ entries[Cur].tst = "run"
    /\ LET e == entries[Cur]
           contentId == ContentId(e.itemId, e.contentIndex)
       IN \/ /\ MayYield
             /\ nYields' = nYields + 1
             /\ \E chunk \in TextChunkValues :
                  /\ wsLog' = send(TextDelta(contentId, chunk))
                  /\ entries' = [entries EXCEPT ![Cur].text = Append(@, chunk)]
             /\ wsMeta' = Append(wsMeta, Meta(Cur, "handleAudioTranscript"))
             /\ UNCHANGED <<loop, unhandled>>
          \/ /\ wsLog' = send(TextDone(contentId))
             /\ wsMeta' = Append(wsMeta, Meta(Cur, "handleAudioTranscript"))
             /\ entries' = [entries EXCEPT ![Cur].tst = "ended"]
             /\ PromiseAll("ended", e.ast)
             /\ UNCHANGED nYields
          \/ /\ entries' = [entries EXCEPT ![Cur].tst = "failed"]
             /\ PromiseAll("failed", e.ast)
             /\ UNCHANGED <<wsLog, wsMeta, nYields>>
    /\ UNCHANGED <<cfg, curItem, curIdx, curInput, inputs, clientVars, closeVars>>

Next ==
    \/ initialize
    \/ initializeRejects
    \/ handleMessage
    \/ handleBinaryMessageSettles
    \/ handleTextMessageSendItemSettles
    \/ handleTextMessageGenerateSettles
    \/ handleClose
    \/ handleCloseSettles
    \/ startEventLoop
    \/ handleInputAudio
    \/ handleResponseItem
    \/ handleResponseContent
    \/ handleTextContent
    \/ handleAudioChunks
    \/ handleAudioTranscript

Spec == Init /\ [][Next]_vars

----------------------------------------------------------------------------
(* Vocabulary of the properties *)

IsTextDelta(m) == ~m.binary /\ m.type = "text_delta"
IsTextDone(m) == ~m.binary /\ m.type = "control" /\ m.action = "text_done"
IsConnected(m) == ~m.binary /\ m.type = "control" /\ m.action = "connected"

(* The frames of wsLog at the positions in I, in order *)
FramesAt(I) ==
    LET RECURSIVE F(_)
        F(k) == IF k = 0 THEN <<>>
                ELSE IF k \in I THEN Append(F(k - 1), wsLog[k]) ELSE F(k - 1)
    IN F(Len(wsLog))

(* Positions of the frames sent for content entry n: all, text, binary *)
EntryPos(n) == {i \in DOMAIN wsLog : wsMeta[i].entry = n}
EntryTextPos(n) == {i \in EntryPos(n) : ~wsLog[i].binary}
EntryBinaryPos(n) == {i \in EntryPos(n) : wsLog[i].binary}

(* The Content Reference the specification gives entry n *)
Reference(n) == entries[n].itemId \o "-" \o ToString(entries[n].contentIndex)

(* The wire frames of section 6 of the specification *)
WireFrame(binary, type, action, id, delta, text, greeting, bytes) ==
    [binary |-> binary, type |-> type, action |-> action, id |-> id,
     delta |-> delta, text |-> text, greeting |-> greeting, bytes |-> bytes]

ExpectedDelta(id, delta) ==
    WireFrame(FALSE, "text_delta", Absent, id, delta, Absent, Absent, NoBytes)

ExpectedDone(id) ==
    WireFrame(FALSE, "control", "text_done", id, Absent, Absent, Absent, NoBytes)

ExpectedAudio(bytes) ==
    WireFrame(TRUE, Absent, Absent, Absent, Absent, Absent, Absent, bytes)

(* What the text (or transcript) chunks of entry n must have produced *)
ExpectedText(n) ==
    [i \in 1..Len(entries[n].text) |-> ExpectedDelta(Reference(n), entries[n].text[i])]
    \o (IF entries[n].tst = "ended" THEN <<ExpectedDone(Reference(n))>> ELSE <<>>)

ExpectedBinary(n) ==
    [i \in 1..Len(entries[n].audio) |-> ExpectedAudio(TypedArrayBytes(entries[n].audio[i]))]

DoneCount(n) == Cardinality({i \in EntryPos(n) : IsTextDone(wsLog[i])})
Opened(n) == EntryPos(n) # {}
StreamOpen(n) == (\E i \in EntryPos(n) : IsTextDelta(wsLog[i])) /\ DoneCount(n) = 0
HandlerOver(n) == entries[n].tst # "run" /\ entries[n].ast # "run"
CloseCalls == Cardinality({i \in DOMAIN upCalls : upCalls[i].op = "close"})
ConnectedCount == Cardinality({i \in DOMAIN wsLog : IsConnected(wsLog[i])})

----------------------------------------------------------------------------
(* C1: for a text content entry whose chunk reads have not failed, the     *)
(* frames sent for the entry are exactly one text_delta per chunk yielded, *)
(* with the chunks' values in the upstream order and the id                *)
(* "{itemId}-{contentIndex}", followed, once the sequence has ended, by    *)
(* exactly one text_done with the same id; nothing else is sent for it.    *)
C1_TextDeltasThenDone ==
    \A n \in DOMAIN entries :
        (entries[n].kind = "text" /\ entries[n].tst # "failed")
            => FramesAt(EntryPos(n)) = ExpectedText(n)

(* a text entry of two different chunks that has ended *)
C1_Witness ==
    \E n \in DOMAIN entries :
        /\ entries[n].kind = "text"
        /\ entries[n].tst = "ended"
        /\ Len(entries[n].text) = 2
        /\ entries[n].text[1] # entries[n].text[2]
        /\ Len(FramesAt(EntryPos(n))) = 3

(* C2: for an audio content entry neither of whose chunk sequences has     *)
(* failed, the binary frames sent are the upstream chunks' bytes, one      *)
(* frame per chunk, in order; the text frames sent are one text_delta per  *)
(* transcript fragment in order, followed once the transcript has ended by *)
(* exactly one text_done; every text frame comes from the transcript       *)
(* branch and every binary frame from the audio branch.                    *)
C2_AudioFramesAndTranscript ==
    \A n \in DOMAIN entries :
        (entries[n].kind = "audio" /\ entries[n].tst # "failed" /\ entries[n].ast # "failed")
            => /\ FramesAt(EntryBinaryPos(n)) = ExpectedBinary(n)
               /\ FramesAt(EntryTextPos(n)) = ExpectedText(n)
               /\ \A i \in EntryTextPos(n) : wsMeta[i].branch = "handleAudioTranscript"
               /\ \A i \in EntryBinaryPos(n) : wsMeta[i].branch = "handleAudioChunks"

(* an audio entry, both sequences ended, whose text_done went out before   *)
(* its audio frame                                                         *)
C2_Witness ==
    \E n \in DOMAIN entries :
        /\ entries[n].kind = "audio"
        /\ entries[n].tst = "ended" /\ entries[n].ast = "ended"
        /\ Len(entries[n].text) = 1 /\ Len(entries[n].audio) = 1
        /\ \E i, j \in EntryPos(n) : i < j /\ IsTextDone(wsLog[i]) /\ wsLog[j].binary

(* C3: every text_delta and text_done sent belongs to a content entry and  *)
(* carries that entry's "{itemId}-{contentIndex}" (item A1, index 2 gives  *)
(* "A1-2"), and two streams open at once never carry the same id.          *)
C3_StableUniqueReference ==
    /\ ContentId("A1", 2) = "A1-2"
    /\ \A i \in DOMAIN wsLog :
         (IsTextDelta(wsLog[i]) \/ IsTextDone(wsLog[i]))
            => /\ wsMeta[i].entry \in DOMAIN entries
               /\ wsLog[i].id = Reference(wsMeta[i].entry)
    /\ \A n, m \in DOMAIN entries :
         (n # m /\ StreamOpen(n) /\ StreamOpen(m)) => Reference(n) # Reference(m)

(* a stream with two deltas, still open *)
C3_Witness ==
    \E n \in DOMAIN entries :
        /\ StreamOpen(n)
        /\ Cardinality({i \in EntryPos(n) : IsTextDelta(wsLog[i])}) = 2

(* C4 (as claimed): once the handler of an opened content stream is over   *)
(* and the client connection is still open, exactly one text_done with the *)
(* stream's reference has been sent, also when a chunk read failed.        *)
C4_OpenedStreamClosed ==
    \A n \in DOMAIN entries :
        (Opened(n) /\ HandlerOver(n) /\ wsOpen)
            => Cardinality({i \in EntryPos(n) : wsLog[i] = ExpectedDone(Reference(n))}) = 1

(* C5 (as claimed): the session never rests, event loop and branches over, *)
(* with a stream the client saw opened, no text_done for it and the        *)
(* client connection still open.                                           *)
C5_NoStreamLeftOpen ==
    ~ /\ loop \in {"done", "failed"}
      /\ \A n \in DOMAIN entries : HandlerOver(n)
      /\ wsOpen
      /\ \E n \in DOMAIN entries :
           /\ \E i \in EntryPos(n) : wsMeta[i].open
           /\ DoneCount(n) = 0

----------------------------------------------------------------------------
(* Client frames in the properties *)

Malformed(f) == ~f.binary /\ f.json = "invalid"
UserMessage(f) == ~f.binary /\ f.json = "object" /\ f.type = "user_message"
CallsOf(n, op) == {i \in DOMAIN upCalls : upCalls[i].frame = n /\ upCalls[i].op = op}
Forwarding == {"sendAudio", "sendItem", "generateResponse"}

(* the step is the arrival of a text frame that is not valid JSON *)
MalformedArrives ==
    /\ Len(frames') = Len(frames) + 1
    /\ Malformed(frames'[Len(frames')].frame)

(* C6: the arrival of a text frame that is not valid JSON makes no         *)
(* upstream call, leaves the event loop where it is, closes neither        *)
(* connection and lets no error escape; no upstream call is ever made for  *)
(* such a frame; and every user_message received after one has had its     *)
(* text passed to sendItem on arrival and, once sendItem has succeeded,    *)
(* exactly one generateResponse after it.                                  *)
C6_MalformedDropped ==
    /\ [][MalformedArrives =>
            /\ upCalls' = upCalls
            /\ loop' = loop /\ entries' = entries
            /\ wsOpen' = wsOpen /\ closePc' = closePc
            /\ unhandled' = unhandled]_vars
    /\ [](\A n \in DOMAIN frames :
            /\ Malformed(frames[n].frame)
                 => /\ \A i \in DOMAIN upCalls : upCalls[i].frame # n
                    /\ frames[n].pc = "caught"
            /\ (UserMessage(frames[n].frame)
                  /\ \E k \in 1..(n - 1) : Malformed(frames[k].frame))
                 => /\ \E i \in CallsOf(n, "sendItem") :
                         /\ CallsOf(n, "sendItem") = {i}
                         /\ upCalls[i].text = frames[n].frame.text
                         /\ \A j \in CallsOf(n, "generateResponse") : i < j
                    /\ frames[n].pc \in {"generateResponse", "done"}
                         => Cardinality(CallsOf(n, "generateResponse")) = 1
                    /\ frames[n].pc = "sendItem" => CallsOf(n, "generateResponse") = {}
                    /\ Cardinality(CallsOf(n, "generateResponse")) <= 1)

(* a malformed frame, then a user_message whose item and response request  *)
(* went upstream, with the event loop running and the client connected     *)
C6_Witness ==
    /\ Len(frames) = 2
    /\ Malformed(frames[1].frame)
    /\ UserMessage(frames[2].frame)
    /\ frames[2].pc = "done"
    /\ CallsOf(2, "sendItem") # {} /\ CallsOf(2, "generateResponse") # {}
    /\ loop = "inputAudio"
    /\ wsOpen

(* C7 (as claimed): when the client connection closed while the event loop *)
(* was draining a text content stream, no promise of the session is        *)
(* rejected unhandled and client.close() is called at most once.           *)
C7_CloseDuringTextIsQuiet ==
    closedIn = "text" => (unhandled = 0 /\ CloseCalls <= 1)

(* C8: the connected message (with a greeting) is sent at most once, and   *)
(* exactly once as soon as configure() has succeeded; it is the first      *)
(* frame sent; the event loop runs only after it; and the event loop, once *)
(* started, is never started again.                                        *)
C8_ConnectedFirstOnce ==
    /\ [](/\ ConnectedCount <= 1
          /\ (cfg = "ok") <=> (ConnectedCount = 1)
          /\ wsLog # <<>> =>
               /\ IsConnected(wsLog[1])
               /\ wsLog[1].greeting # Absent
               /\ wsLog[1] = WireFrame(FALSE, "control", "connected", Absent, Absent,
                                       Absent, wsLog[1].greeting, NoBytes)
          /\ loop # "idle" => (cfg = "ok" /\ ConnectedCount = 1))
    /\ [][loop # "idle" => loop' # "idle"]_vars
    /\ [][(loop = "idle" /\ loop' # "idle") => (cfg = "pending" /\ cfg' = "ok" /\ loop' = "events")]_vars

(* connected, then a text_delta and its text_done *)
C8_Witness ==
    /\ cfg = "ok"
    /\ Len(wsLog) >= 3
    /\ IsConnected(wsLog[1])
    /\ IsTextDelta(wsLog[2])
    /\ IsTextDone(wsLog[3])

(* C9 (as claimed): once configure() has failed, no connected message is   *)
(* sent, the event loop is not started, and the upstream connection is     *)
(* released (client.close() called) while the client is still connected.   *)
C9_ConfigureFailureCloses ==
    (cfg = "failed" /\ wsOpen)
        => (ConnectedCount = 0 /\ loop = "idle" /\ CloseCalls >= 1)

(* C10 (as claimed): every sendAudio, sendItem and generateResponse is     *)
(* called after configure() has succeeded.                                 *)
C10_ForwardOnlyWhenConfigured ==
    \A i \in DOMAIN upCalls :
        upCalls[i].op \in Forwarding => upCalls[i].cfg = "ok"

----------------------------------------------------------------------------
(* Claims about client-to-upstream forwarding and its interleavings.       *)

OtherKind(f) == ~f.binary /\ f.json = "object" /\ f.type # "user_message"
CallsFor(n) == {i \in DOMAIN upCalls : upCalls[i].frame = n}

(* C11: a user_message frame has its text passed to sendItem exactly once, *)
(* on arrival; generateResponse is called for it at most once, not while   *)
(* sendItem is pending, never when sendItem was rejected, and exactly once *)
(* (after the sendItem) when sendItem succeeded; no other upstream call is *)
(* made for it.  A text frame decoding to an object of another type or of  *)
(* no type makes no upstream call and its handler ends without an error.   *)
(* A binary frame has its bytes, unchanged, passed to sendAudio exactly    *)
(* once and makes no other upstream call.                                  *)
C11_ForwardedOncePerFrame ==
    /\ [](\A n \in DOMAIN frames :
            /\ UserMessage(frames[n].frame)
                 => /\ \E i \in CallsOf(n, "sendItem") :
                         /\ CallsOf(n, "sendItem") = {i}
                         /\ upCalls[i].text = frames[n].frame.text
                         /\ \A j \in CallsOf(n, "generateResponse") : i < j
                    /\ CallsFor(n) = CallsOf(n, "sendItem") \cup CallsOf(n, "generateResponse")
                    /\ Cardinality(CallsOf(n, "generateResponse")) <= 1
                    /\ frames[n].pc = "sendItem" => CallsOf(n, "generateResponse") = {}
                    /\ frames[n].pc \in {"generateResponse", "done"}
                         => Cardinality(CallsOf(n, "generateResponse")) = 1
            /\ OtherKind(frames[n].frame)
                 => /\ CallsFor(n) = {}
                    /\ frames[n].pc = "done"
            /\ frames[n].frame.binary
                 => /\ \E i \in CallsOf(n, "sendAudio") :
                         /\ CallsFor(n) = {i}
                         /\ upCalls[i].bytes = frames[n].frame.bytes
                    /\ frames[n].pc \in {"sendAudio", "done", "caught"})
    /\ [][\A n \in DOMAIN frames :
            (frames[n].pc = "sendItem" /\ frames'[n].pc = "caught")
              => upCalls' = upCalls]_vars

(* two frames: a user_message whose item and response request went        *)
(* upstream, then a binary frame whose bytes went upstream                 *)
C11_Witness ==
    /\ Len(frames) = 2
    /\ UserMessage(frames[1].frame) /\ frames[1].pc = "done"
    /\ Cardinality(CallsOf(1, "generateResponse")) = 1
    /\ frames[2].frame.binary /\ frames[2].pc = "done"
    /\ \E i \in CallsOf(2, "sendAudio") : upCalls[i].bytes = frames[2].frame.bytes

(* C12 (as claimed): the upstream operations made for client frames are    *)
(* issued in the order of the frames: no operation made for an earlier     *)
(* frame comes after an operation made for a later one.                    *)
C12_FrameOrderPreserved ==
    \A i, j \in DOMAIN upCalls :
        (i < j /\ upCalls[i].frame > 0 /\ upCalls[j].frame > 0)
          => upCalls[i].frame <= upCalls[j].frame

(* an upstream send made for a client frame was rejected *)
SendRejected ==
    \E n \in DOMAIN frames :
        frames[n].pc = "caught" /\ parsedType(frames[n].frame) # "throws"

(* no handler of the session has a step left to take *)
Quiescent ==
    /\ cfg # "pending"
    /\ loop \in {"idle", "done", "failed"}
    /\ \A n \in DOMAIN entries : HandlerOver(n)
    /\ \A n \in DOMAIN frames : frames[n].pc \in {"done", "caught"}
    /\ closePc # "closing"

(* C13 (as claimed): once an upstream send has been rejected or the event  *)
(* loop has failed, no further client frame is forwarded upstream, and the *)
(* session calls client.close() by itself: when every handler has run to   *)
(* its end and the client is still connected, close() has been called.     *)
C13_FailureClosesSession ==
    /\ []((((SendRejected \/ loop = "failed") /\ wsOpen /\ Quiescent))
            => CloseCalls >= 1)
    /\ [][(SendRejected \/ loop = "failed")
            => \A i \in DOMAIN upCalls' \ DOMAIN upCalls :
                   upCalls'[i].op \notin Forwarding]_vars

(* an upstream send made for a client frame has not settled yet *)
PendingSend ==
    \E n \in DOMAIN frames : frames[n].pc \in {"sendAudio", "sendItem", "generateResponse"}

(* the event loop is suspended on a read from upstream *)
LoopSuspended == loop \in {"events", "items", "contents", "text", "audio", "inputAudio"}

(* a step of the event loop or of one of its content handlers *)
LoopStep ==
    \/ startEventLoop \/ handleInputAudio \/ handleResponseItem
    \/ handleResponseContent \/ handleTextContent \/ handleAudioChunks
    \/ handleAudioTranscript

(* the bounds leave room for one more client frame *)
MayReceive == Len(frames) < MaxFrames /\ nYields + 2 * (Len(frames) + 1) <= MaxInputs

(* the handler of a client frame ends in handleMessage's catch in this step *)
FrameHandlerFails ==
    \/ \E n \in DOMAIN frames : frames[n].pc # "caught" /\ frames'[n].pc = "caught"
    \/ Len(frames') = Len(frames) + 1 /\ frames'[Len(frames')].pc = "caught"

(* C14: while an upstream send made for a client frame is pending, or      *)
(* after one was rejected, the event loop can still send to the client     *)
(* (when it waits for a text chunk or for an input to complete) and take   *)
(* the next upstream element, and a further client frame is accepted;      *)
(* while the event loop is suspended on upstream, a client frame is still  *)
(* forwarded and a pending send still settles; and a step in which the     *)
(* handling of a client frame fails changes nothing of the event loop and  *)
(* rejects no promise of it.                                               *)
C14_HandlersDoNotBlock ==
    /\ [](/\ ((PendingSend \/ SendRejected) /\ loop \in {"text", "inputAudio"})
               => ENABLED (LoopStep /\ Len(wsLog') > Len(wsLog))
          /\ ((PendingSend \/ SendRejected) /\ LoopSuspended /\ loop # "inputAudio"
                 /\ MayYield)
               => ENABLED (LoopStep /\ nYields' > nYields)
          /\ ((PendingSend \/ SendRejected) /\ wsOpen /\ MayReceive)
               => ENABLED handleMessage
          /\ (LoopSuspended /\ wsOpen /\ MayReceive)
               => ENABLED (handleMessage /\ Len(upCalls') > Len(upCalls))
          /\ (LoopSuspended /\ PendingSend)
               => ENABLED (handleBinaryMessageSettles \/ handleTextMessageSendItemSettles
                           \/ handleTextMessageGenerateSettles))
    /\ [][FrameHandlerFails => UNCHANGED <<loopVars, wsLog, unhandled>>]_vars

(* the event loop waits for a text chunk while a frame's upstream send is  *)
(* pending and the client is connected                                     *)
C14_Witness ==
    /\ loop = "text"
    /\ PendingSend
    /\ wsOpen

----------------------------------------------------------------------------
(* Claims about the end of the session and about the event loop.           *)

(* C15 (as claimed): once the client connection has closed, close() is     *)
(* called on the upstream client, no send to the client connection is      *)
(* attempted any more, and the event loop and its content handlers process *)
(* no further upstream event, item, content or chunk.                      *)
C15_CloseCancelsEventLoop ==
    /\ [](/\ ~wsOpen => CloseCalls >= 1
          /\ \A i \in DOMAIN wsMeta : wsMeta[i].open)
    /\ [][~wsOpen => UNCHANGED <<loopVars, wsLog, nYields>>]_vars

ExpectedSpeechStarted ==
    WireFrame(FALSE, "control", "speech_started", Absent, Absent, Absent, Absent, NoBytes)

ExpectedTranscription(id, text) ==
    WireFrame(FALSE, "transcription", Absent, id, Absent, text, Absent, NoBytes)

(* What input_audio event k must have produced so far *)
ExpectedInput(k) ==
    <<ExpectedSpeechStarted>>
    \o (IF inputs[k].st = "completed"
        THEN <<ExpectedTranscription(inputs[k].id,
                                     IF inputs[k].transcription = Absent
                                     THEN "" ELSE inputs[k].transcription)>>
        ELSE <<>>)

ExpectedInputs ==
    LET RECURSIVE E(_)
        E(k) == IF k = 0 THEN <<>> ELSE E(k - 1) \o ExpectedInput(k)
    IN E(Len(inputs))

InputPos == {i \in DOMAIN wsLog : wsMeta[i].branch = "handleInputAudio"}

(* C16: the frames sent for the input_audio events are, event by event in  *)
(* the order of the events: one speech_started control message without an  *)
(* id, sent as soon as the event is taken, then, only once the wait for    *)
(* completion has succeeded, one transcription carrying the id of the      *)
(* input item and its transcription, or the empty string when it has none; *)
(* nothing more when the wait failed.  No other frame is a speech_started  *)
(* or a transcription, and only the last event can still be waiting.       *)
C16_SpeechStartedThenTranscription ==
    /\ FramesAt(InputPos) = ExpectedInputs
    /\ \A i \in DOMAIN wsLog \ InputPos :
           wsLog[i].type # "transcription" /\ wsLog[i].action # "speech_started"
    /\ \A k \in DOMAIN inputs :
           /\ inputs[k].st = "waiting" => (k = Len(inputs) /\ loop = "inputAudio")
           /\ \A j \in DOMAIN inputs : j # k => inputs[j].id # inputs[k].id

(* an input that completed with no transcription, then an input whose wait *)
(* failed: speech_started, transcription, speech_started                   *)
C16_Witness ==
    /\ Len(inputs) = 2
    /\ inputs[1].st = "completed" /\ inputs[1].transcription = Absent
    /\ inputs[2].st = "failed"
    /\ Len(FramesAt(InputPos)) = 3

(* the step takes from upstream an item that is not a message, or a        *)
(* content that is neither text nor audio                                  *)
SkippedElement ==
    /\ loop \in {"items", "contents"}
    /\ loop' = loop
    /\ nYields' = nYields + 1

(* C17: content entries are handled one at a time and in the order         *)
(* upstream yields them: when an entry's handler starts, the handler of    *)
(* every earlier entry has run to its end (its text_done included); the    *)
(* entries of one item are consecutive and in the order of their content   *)
(* indexes; every frame sent for an entry precedes every frame sent for a  *)
(* later entry, hence every frame of an item precedes every frame of the   *)
(* next item.  Only text and audio entries of message items have frames,   *)
(* and taking an item or content of another kind sends nothing, starts no  *)
(* handler and rejects no promise.                                         *)
C17_ItemsInOrder ==
    /\ [](/\ \A n \in DOMAIN entries :
               /\ entries[n].kind \in {"text", "audio"}
               /\ n < Len(entries)
                    => (entries[n].tst = "ended" /\ entries[n].ast \in {"none", "ended"})
               /\ \A m \in DOMAIN entries :
                    (n < m /\ entries[n].itemId = entries[m].itemId)
                      => /\ entries[n].contentIndex < entries[m].contentIndex
                         /\ \A k \in n..m : entries[k].itemId = entries[n].itemId
          /\ \A i, j \in DOMAIN wsLog :
               (i < j /\ wsMeta[i].entry > 0 /\ wsMeta[j].entry > 0)
                 => wsMeta[i].entry <= wsMeta[j].entry
          /\ \A i \in DOMAIN wsLog :
               (IsTextDelta(wsLog[i]) \/ IsTextDone(wsLog[i]) \/ wsLog[i].binary)
                 => wsMeta[i].entry \in DOMAIN entries)
    /\ [][SkippedElement => UNCHANGED <<entries, wsLog, unhandled>>]_vars

(* two message items of one response, each with a text entry that sent its *)
(* text_done                                                               *)
C17_Witness ==
    /\ Len(entries) = 2
    /\ entries[1].itemId # entries[2].itemId
    /\ entries[1].tst = "ended" /\ entries[2].tst = "ended"
    /\ EntryPos(1) # {} /\ EntryPos(2) # {}
    /\ Len(inputs) = 0

(* the handling of an upstream event has failed *)
EventFailed ==
    \/ \E n \in DOMAIN entries : entries[n].tst = "failed" \/ entries[n].ast = "failed"
    \/ \E k \in DOMAIN inputs : inputs[k].st = "failed"

(* C18: when the handling of an upstream event has failed (a content       *)
(* stream or the wait for an input) the event loop has stopped; and once   *)
(* the event loop has stopped on a failure it stays stopped: no event,     *)
(* item or content is taken, no handler is started, and the only frames    *)
(* still sent are those of the audio entry that was being handled when the *)
(* failure occurred, never one derived from a later event.                 *)
C18_FailureStopsEventLoop ==
    /\ [](EventFailed => loop = "failed")
    /\ [][loop = "failed"
            => /\ loop' = "failed"
               /\ Len(entries') = Len(entries)
               /\ UNCHANGED <<inputs, curItem, curIdx, curInput>>
               /\ \A i \in DOMAIN wsLog' \ DOMAIN wsLog :
                    /\ wsMeta'[i].entry = Cur
                    /\ Cur > 0
                    /\ entries[Cur].kind = "audio"
                    /\ wsMeta'[i].branch \in {"handleAudioChunks", "handleAudioTranscript"}]_vars

(* the event loop stopped on the failure of a text stream that had sent a  *)
(* delta, the client still connected                                       *)
C18_Witness ==
    /\ loop = "failed"
    /\ Len(entries) = 1
    /\ entries[1].kind = "text" /\ entries[1].tst = "failed"
    /\ Len(entries[1].text) = 1
    /\ wsOpen

(* C19 (as claimed): when handleAudioContent has reported the failure of   *)
(* one of its two branches to its caller (the event loop has stopped on    *)
(* it), the other branch is no longer draining: it has reached its end     *)
(* (the transcript branch having sent its text_done) or failed itself.     *)
C19_FailureAfterOtherBranch ==
    \A n \in DOMAIN entries :
        (/\ entries[n].kind = "audio"
         /\ entries[n].tst = "failed" \/ entries[n].ast = "failed"
         /\ loop = "failed")
          => HandlerOver(n)

----------------------------------------------------------------------------
(* Claims about teardown, event-by-event handling and the audio handler.   *)

(* the promises of the session that were rejected with nobody to catch     *)
(* them: that of initialize() and that of startEventLoop()                 *)
RejectedPromises ==
    (IF cfg = "failed" THEN 1 ELSE 0) + (IF loop = "failed" THEN 1 ELSE 0)

(* C21: the close handler has run exactly when the client connection has   *)
(* closed, and it has called client.close() exactly once, as its first     *)
(* step; while close() is pending the handler can settle either way, and   *)
(* both outcomes end the handler: a rejected close() is logged and         *)
(* rejects no promise of the session (the only rejected promises are those *)
(* of initialize and of the event loop).                                   *)
C21_CloseFailureLogged ==
    /\ (closePc = "none") <=> wsOpen
    /\ ~wsOpen => CloseCalls = 1
    /\ wsOpen => CloseCalls = 0
    /\ closePc = "closing"
         => /\ ENABLED (handleCloseSettles /\ closePc' = "closed")
            /\ ENABLED (handleCloseSettles /\ closePc' = "closeFailed")
    /\ closePc \in {"none", "closing", "closed", "closeFailed"}
    /\ unhandled = RejectedPromises

(* close() was rejected in a session whose configure succeeded and whose   *)
(* event loop did not fail: nothing is rejected unhandled                  *)
C21_Witness ==
    /\ closePc = "closeFailed"
    /\ cfg = "ok"
    /\ loop \notin {"idle", "failed"}
    /\ unhandled = 0

(* The place in upstream's order of the input event or response item with  *)
(* this id: ids are given in the order upstream yields.                    *)
ItemIds == [k \in 1..(MaxInputs + 1) |-> ItemId(k)]

YieldNumber(id) == CHOOSE k \in DOMAIN ItemIds : ItemIds[k] = id

(* The input_audio event frame i of InputPos was sent for: each event      *)
(* before the last has its two frames.                                     *)
InputOf(i) == (Cardinality({j \in InputPos : j <= i}) + 1) \div 2

(* The input event or response item that frame i was sent for (0 for the   *)
(* connected message)                                                      *)
Origin(i) ==
    IF wsMeta[i].entry > 0 THEN YieldNumber(entries[wsMeta[i].entry].itemId)
    ELSE IF i \in InputPos THEN YieldNumber(inputs[InputOf(i)].id)
    ELSE 0

(* C22: at every moment of every run the event loop handles one upstream   *)
(* event at a time.  While an input_audio event waits for its completion   *)
(* the loop is suspended on that wait, no content handler is running and   *)
(* nothing has been sent since its speech_started; a transcription         *)
(* immediately follows its speech_started; the loop reads the next event   *)
(* only when every content handler has run to its end and every input has  *)
(* completed; and the frames sent to the client are in the order in which  *)
(* upstream yielded the input events and response items they were sent     *)
(* for.                                                                    *)
C22_OneEventAtATime ==
    [](/\ \A k \in DOMAIN inputs :
              inputs[k].st = "waiting"
                => /\ k = Len(inputs)
                   /\ loop = "inputAudio"
                   /\ wsLog # <<>>
                   /\ wsLog[Len(wsLog)] = ExpectedSpeechStarted
                   /\ Len(wsLog) \in InputPos
       /\ loop = "inputAudio"
            => /\ inputs # <<>> /\ inputs[Len(inputs)].st = "waiting"
               /\ \A n \in DOMAIN entries : entries[n].tst # "run" /\ entries[n].ast # "run"
       /\ \A i \in DOMAIN wsLog :
              wsLog[i].type = "transcription"
                => i > 1 /\ wsLog[i - 1] = ExpectedSpeechStarted /\ (i - 1) \in InputPos
       /\ loop \in {"events", "done"}
            => /\ \A n \in DOMAIN entries :
                    entries[n].tst = "ended" /\ entries[n].ast \in {"none", "ended"}
               /\ \A k \in DOMAIN inputs : inputs[k].st = "completed"
       /\ \A i \in 1..(Len(wsLog) - 1) : Origin(i) <= Origin(i + 1))

(* an input that completed, then a response whose text entry sent its      *)
(* text_done, then a second input waiting for its completion               *)
C22_Witness ==
    /\ Len(inputs) = 2
    /\ inputs[1].st = "completed" /\ inputs[2].st = "waiting"
    /\ Len(entries) = 1
    /\ EntryPos(1) # {}
    /\ Len(wsLog) = 5

AudioEntries == {n \in DOMAIN entries : entries[n].kind = "audio"}

(* handleAudioContent has returned to handleResponse for entry n *)
AudioHandlerReturned(n) == n < Len(entries) \/ loop \notin {"audio", "failed"}

(* C23: when handleAudioContent has returned for an audio entry, both of   *)
(* its branches have run to their end: every audio chunk upstream yielded  *)
(* has been sent as a binary frame and the transcript's text_done has been *)
(* sent, as the last text frame of the entry; the handler has not returned *)
(* only for the entry in progress, with the event loop suspended on the    *)
(* join of the branches or stopped by a failure; and the frames of an      *)
(* audio entry are consecutive: no frame of another entry, item or event   *)
(* falls between them.                                                     *)
C23_AudioHandlerJoinsBranches ==
    \A n \in AudioEntries :
        /\ AudioHandlerReturned(n)
             => /\ entries[n].tst = "ended" /\ entries[n].ast = "ended"
                /\ Cardinality(EntryBinaryPos(n)) = Len(entries[n].audio)
                /\ \E i \in EntryTextPos(n) :
                     /\ wsLog[i] = ExpectedDone(Reference(n))
                     /\ \A j \in EntryTextPos(n) : j <= i
        /\ ~AudioHandlerReturned(n) => loop \in {"audio", "failed"} /\ n = Cur
        /\ \A i, j \in EntryPos(n) : \A k \in i..j : wsMeta[k].entry = n

(* the handler returned for an audio entry whose text_done was sent before *)
(* its last audio frame                                                    *)
C23_Witness ==
    \E n \in AudioEntries :
        /\ AudioHandlerReturned(n)
        /\ \E i \in EntryTextPos(n), j \in EntryBinaryPos(n) :
             IsTextDone(wsLog[i]) /\ i < j
====
